---- MODULE Spec2Model ----
(***************************************************************************)
(* QuakeLogParser (src/main.py): a single-pass log parser that folds the   *)
(* lines of a game-server log into per-game kill statistics.               *)
(*                                                                         *)
(* Python values are represented as follows.                               *)
(*   str          a sequence of one-character strings ("B" is <<"B">>)     *)
(*   None (id)    the empty sequence (no game id is the empty string)      *)
(*   dict         a sequence of [key, val] entries in insertion order      *)
(*   defaultdict  [default_factory, items] with items a function from the  *)
(*                present keys to integers                                 *)
(*   a log line   the outcome of the three tests the code applies to it:   *)
(*                line.strip() is empty, init_game_pattern.search finds    *)
(*                "InitGame:", and the groups (4) and (5) captured by      *)
(*                kill_pattern.match (<<>> when it does not match)         *)
(***************************************************************************)
EXTENDS Integers, Sequences, FiniteSets, TLC

VARIABLES games, current_game_id, game_counter, pc, returned, hist, parses,
          reused, file_len

vars == <<games, current_game_id, game_counter, pc, returned, hist, parses,
          reused, file_len>>

\* Longest log file explored, in lines.
MaxLines == 3

\* Number of parse_log_file calls that get past the existence check.
MaxParses == 2

----------------------------------------------------------------------------
(* Strings *)

None == <<>>

World == <<"<", "w", "o", "r", "l", "d", ">">>

PlayerNames == {<<"B">>, <<"A", "b">>}

Names == PlayerNames \cup {World}

\* Unicode code points of the characters that occur in names.
CodePoint ==
  (" " :> 32) @@ ("<" :> 60) @@ (">" :> 62) @@ ("A" :> 65) @@ ("B" :> 66) @@
  ("b" :> 98) @@ ("d" :> 100) @@ ("l" :> 108) @@ ("o" :> 111) @@
  ("r" :> 114) @@ ("w" :> 119)

\* Python's str "<": lexicographic by code point, a proper prefix is smaller.
RECURSIVE StrLess(_, _)
StrLess(a, b) ==
  IF a = <<>> THEN b # <<>>
  ELSE IF b = <<>> THEN FALSE
  ELSE IF Head(a) = Head(b) THEN StrLess(Tail(a), Tail(b))
  ELSE CodePoint[Head(a)] < CodePoint[Head(b)]

\* str.strip(): drop leading and trailing whitespace.
RECURSIVE LStrip(_)
LStrip(s) == IF s # <<>> /\ Head(s) = " " THEN LStrip(Tail(s)) ELSE s

RECURSIVE RStrip(_)
RStrip(s) ==
  IF s # <<>> /\ s[Len(s)] = " " THEN RStrip(SubSeq(s, 1, Len(s) - 1)) ELSE s

Strip(s) == RStrip(LStrip(s))

Digit == <<"0", "1", "2", "3", "4", "5", "6", "7", "8", "9">>

\* str(n) for n >= 0, as the f-string formats the counter.
RECURSIVE Str(_)
Str(n) ==
  IF n < 10 THEN <<Digit[n + 1]>>
  ELSE Str(n \div 10) \o <<Digit[(n % 10) + 1]>>

\* set(list)
ToSet(seq) == {seq[i] : i \in DOMAIN seq}

\* sorted(list(S)) for a set S of strings.
RECURSIVE Sorted(_)
Sorted(S) ==
  IF S = {} THEN <<>>
  ELSE LET m == CHOOSE x \in S : \A y \in S \ {x} : StrLess(x, y)
       IN  <<m>> \o Sorted(S \ {m})

----------------------------------------------------------------------------
(* Dictionaries *)

DictHas(d, k) == \E i \in DOMAIN d : d[i].key = k

DictGet(d, k) == d[CHOOSE i \in DOMAIN d : d[i].key = k].val

\* d[k] = v: replaces the value of a present key, appends an absent one.
DictSet(d, k, v) ==
  IF DictHas(d, k)
  THEN [i \in DOMAIN d |-> IF d[i].key = k THEN [key |-> k, val |-> v] ELSE d[i]]
  ELSE Append(d, [key |-> k, val |-> v])

\* defaultdict(int)
DefaultDictInt == [default_factory |-> "int", items |-> <<>>]

\* kills[name] += delta raises KeyError on a plain dict without the key.
KillsKeyError(kills, name) ==
  /\ kills.default_factory = "None"
  /\ name \notin DOMAIN kills.items

\* Mutant: a score never goes below zero.
KillsAddFloorZero(kills, name, delta) ==
  LET Floor(n) == IF n < 0 THEN 0 ELSE n
  IN  IF name \in DOMAIN kills.items
      THEN [kills EXCEPT !.items = [@ EXCEPT ![name] = Floor(@ + delta)]]
      ELSE IF kills.default_factory = "int"
      THEN [kills EXCEPT !.items = (name :> Floor(0 + delta)) @@ @]
      ELSE kills

\* kills[name] += delta, the missing key created at int() = 0 first.
KillsAdd(kills, name, delta) ==
  IF name \in DOMAIN kills.items
  THEN [kills EXCEPT !.items = [@ EXCEPT ![name] = @ + delta]]
  ELSE IF kills.default_factory = "int"
  THEN [kills EXCEPT !.items = (name :> (0 + delta)) @@ @]
  ELSE kills

----------------------------------------------------------------------------
(* Log lines *)

BlankLine == [empty |-> TRUE, init |-> FALSE, kill |-> None]

\* The lines a log is made of: the blank line, and the lines that are not
\* blank with or without "InitGame:" and with or without the kill shape.  The
\* lines without "InitGame:" carry every pair of names, the one line with both
\* "InitGame:" and the kill shape carries one pair.
Lines ==
  {BlankLine} \cup
  {[empty |-> FALSE, init |-> FALSE, kill |-> k] :
     k \in {None} \cup (Names \X Names)} \cup
  {[empty |-> FALSE, init |-> TRUE, kill |-> k] :
     k \in {None, <<<<"A", "b">>, <<"B">>>>}}

\* init_game_pattern.search(line)
InitGameSearch(line) == line.init

\* kill_pattern.match(line): None, or the captured killer and victim names.
KillMatch(line) == line.kill

----------------------------------------------------------------------------
(* The parser object *)

\* The fields __init__ sets.
NewParser == [games |-> <<>>, current_game_id |-> None, game_counter |-> 0]

\* Mutant: the reset leaves the counter alone.
ResetStateKeepsCounter(s) ==
  [games |-> <<>>, current_game_id |-> None, game_counter |-> s.game_counter]

\* The reset at the head of parse_log_file.
ResetState(s) == [games |-> <<>>, current_game_id |-> None, game_counter |-> 0]

\* f"game_{n}"
GameId(n) == <<"g", "a", "m", "e", "_">> \o Str(n)

NewGame == [total_kills |-> 0, players |-> <<>>, kills |-> DefaultDictInt]

\* Mutant: the identifier is formatted before the counter is incremented.
StartNewGameStaleId(s) ==
  LET n  == s.game_counter + 1
      id == GameId(s.game_counter)
  IN  [games           |-> DictSet(s.games, id, NewGame),
       current_game_id |-> id,
       game_counter    |-> n]

\* Mutant: a marker starts no game while the current one has no kills.
StartNewGameSkipsEmpty(s) ==
  LET n  == s.game_counter + 1
      id == GameId(n)
  IN  IF /\ s.current_game_id # None
         /\ DictGet(s.games, s.current_game_id).total_kills = 0
      THEN s
      ELSE [games           |-> DictSet(s.games, id, NewGame),
            current_game_id |-> id,
            game_counter    |-> n]

StartNewGame(s) ==
  LET n  == s.game_counter + 1
      id == GameId(n)
  IN  [games           |-> DictSet(s.games, id, NewGame),
       current_game_id |-> id,
       game_counter    |-> n]

\* Mutant: total_kills is assigned 1 instead of incremented.
CountKillAssigns(game) == [game EXCEPT !.total_kills = 1]

\* current_game["total_kills"] += 1
CountKill(game) == [game EXCEPT !.total_kills = @ + 1]

\* The name whose kills entry the event touches, None when it touches none.
ScoredName(killer_name, victim_name) ==
  IF killer_name = World
  THEN IF victim_name # World THEN victim_name ELSE None
  ELSE killer_name

\* Mutant: a world kill leaves the victim's score alone.
ScoreKillNoPenalty(game, killer_name, victim_name) ==
  IF killer_name = World
  THEN game
  ELSE [game EXCEPT !.kills = KillsAdd(@, killer_name, 1)]

\* Mutant: a player kill also takes a point from the victim.
ScoreKillPenalisesVictim(game, killer_name, victim_name) ==
  IF killer_name = World
  THEN IF victim_name # World
       THEN [game EXCEPT !.kills = KillsAdd(@, victim_name, -1)]
       ELSE game
  ELSE [game EXCEPT !.kills =
          KillsAdd(KillsAdd(@, killer_name, 1), victim_name, -1)]

\* Mutant: a world kill penalises the victim without the "<world>" check.
ScoreKillNoVictimCheck(game, killer_name, victim_name) ==
  IF killer_name = World
  THEN [game EXCEPT !.kills = KillsAdd(@, victim_name, -1)]
  ELSE [game EXCEPT !.kills = KillsAdd(@, killer_name, 1)]

\* Mutant: a self-kill costs the player a point.
ScoreKillSelfPenalty(game, killer_name, victim_name) ==
  IF killer_name = World
  THEN IF victim_name # World
       THEN [game EXCEPT !.kills = KillsAdd(@, victim_name, -1)]
       ELSE game
  ELSE IF killer_name = victim_name
  THEN [game EXCEPT !.kills = KillsAdd(@, killer_name, -1)]
  ELSE [game EXCEPT !.kills = KillsAdd(@, killer_name, 1)]

\* World kills take a point from the victim, player kills give the killer one.
ScoreKill(game, killer_name, victim_name) ==
  IF killer_name = World
  THEN IF victim_name # World
       THEN [game EXCEPT !.kills = KillsAdd(@, victim_name, -1)]
       ELSE game
  ELSE [game EXCEPT !.kills = KillsAdd(@, killer_name, 1)]

\* Mutant: the names are added without the "<world>" filter.
UpdatePlayersKeepsWorld(game, killer_name, victim_name) ==
  LET players_set == {killer_name, victim_name}
      existing_players == ToSet(game.players)
  IN  [game EXCEPT !.players = Sorted(existing_players \cup players_set)]

\* Mutant: new names are appended to the list, which is not sorted again.
UpdatePlayersAppends(game, killer_name, victim_name) ==
  LET Add(list, name) ==
        IF name = World \/ name \in ToSet(list) THEN list
        ELSE Append(list, name)
  IN  [game EXCEPT !.players = Add(Add(@, killer_name), victim_name)]

\* The players list becomes the sorted union with the event's names.
UpdatePlayers(game, killer_name, victim_name) ==
  LET players_set ==
        (IF killer_name # World THEN {killer_name} ELSE {}) \cup
        (IF victim_name # World THEN {victim_name} ELSE {})
      existing_players == ToSet(game.players)
  IN  [game EXCEPT !.players = Sorted(existing_players \cup players_set)]

\* Mutant: every kill event starts a game.
WithCurrentGameAlwaysNew(s) == StartNewGame(s)

\* The parser with a current game: one is started when there is none.
WithCurrentGame(s) == IF s.current_game_id = None THEN StartNewGame(s) ELSE s

\* Whether _process_kill_event raises KeyError at its score update.
KillEventRaises(s, match) ==
  LET s1          == WithCurrentGame(s)
      killer_name == Strip(match[1])
      victim_name == Strip(match[2])
      name        == ScoredName(killer_name, victim_name)
  IN  /\ name # None
      /\ KillsKeyError(DictGet(s1.games, s1.current_game_id).kills, name)

\* Mutant: the games share one statistics object, so a kill shows in all.
ProcessKillEventSharedStats(s, match) ==
  LET s1           == WithCurrentGame(s)
      killer_name  == Strip(match[1])
      victim_name  == Strip(match[2])
      Updated(game) ==
        UpdatePlayers(ScoreKill(CountKill(game), killer_name, victim_name),
                      killer_name, victim_name)
  IN  [s1 EXCEPT !.games =
         [i \in DOMAIN @ |-> [key |-> @[i].key, val |-> Updated(@[i].val)]]]

\* Mutant: a kill event is dropped when no game has been started.
ProcessKillEventNeedsGame(s, match) ==
  LET killer_name  == Strip(match[1])
      victim_name  == Strip(match[2])
  IN  IF s.current_game_id = None THEN s
      ELSE [s EXCEPT !.games =
              DictSet(@, s.current_game_id,
                      UpdatePlayers(
                        ScoreKill(CountKill(DictGet(s.games, s.current_game_id)),
                                  killer_name, victim_name),
                        killer_name, victim_name))]

ProcessKillEvent(s, match) ==
  LET s1           == WithCurrentGame(s)
      killer_name  == Strip(match[1])
      victim_name  == Strip(match[2])
      current_game == DictGet(s1.games, s1.current_game_id)
      counted      == CountKill(current_game)
      scored       == ScoreKill(counted, killer_name, victim_name)
      updated      == IF KillEventRaises(s, match) THEN counted
                      ELSE UpdatePlayers(scored, killer_name, victim_name)
  IN  [s1 EXCEPT !.games = DictSet(@, s1.current_game_id, updated)]

\* Whether the loop body raises on this line.
LineRaises(s, line) ==
  /\ ~line.empty
  /\ ~InitGameSearch(line)
  /\ KillMatch(line) # None
  /\ KillEventRaises(s, KillMatch(line))

\* Mutant: a blank line ends the current game.
ProcessLineBlankEndsGame(s, line) ==
  IF line.empty THEN [s EXCEPT !.current_game_id = None]
  ELSE IF InitGameSearch(line) THEN StartNewGame(s)
  ELSE IF KillMatch(line) # None THEN ProcessKillEvent(s, KillMatch(line))
  ELSE s

\* Mutant: the kill pattern is tried before the marker.
ProcessLineKillFirst(s, line) ==
  IF line.empty THEN s
  ELSE IF KillMatch(line) # None THEN ProcessKillEvent(s, KillMatch(line))
  ELSE IF InitGameSearch(line) THEN StartNewGame(s)
  ELSE s

\* The body of the loop over the file's lines.
ProcessLine(s, line) ==
  IF line.empty THEN s
  ELSE IF InitGameSearch(line) THEN StartNewGame(s)
  ELSE IF KillMatch(line) # None THEN ProcessKillEvent(s, KillMatch(line))
  ELSE s

\* dict(game_data["kills"]) for every game.
FinalizeGames(g) ==
  [i \in DOMAIN g |->
     [g[i] EXCEPT !.val.kills = [default_factory |-> "None", items |-> @.items]]]

----------------------------------------------------------------------------
(* The file system *)

Paths == {"log.txt", "missing.txt"}

ExistingPaths == {"log.txt"}

\* os.path.exists(file_path)
PathExists(path) == path \in ExistingPaths

----------------------------------------------------------------------------
(* Actions *)

Self == [games |-> games, current_game_id |-> current_game_id,
         game_counter |-> game_counter]

SetSelf(s) ==
  /\ games' = s.games
  /\ current_game_id' = s.current_game_id
  /\ game_counter' = s.game_counter

\* What a call hands back: its outcome and, for a return, the value.
Outcome(op, path, outcome, value) ==
  [op |-> op, path |-> path, outcome |-> outcome, value |-> value]

\* Mutant: a missing file yields an empty mapping instead of an error.
NotFoundOutcomeEmpty(path) == Outcome("parse_log_file", path, "value", <<>>)

\* raise FileNotFoundError(...)
NotFoundOutcome(path) ==
  Outcome("parse_log_file", path, "FileNotFoundError", <<>>)

Init ==
  /\ games = NewParser.games
  /\ current_game_id = NewParser.current_game_id
  /\ game_counter = NewParser.game_counter
  /\ pc = "idle"
  /\ returned = Outcome("__init__", "", "value", <<>>)
  /\ hist = <<>>
  /\ parses = 0
  /\ reused = FALSE
  /\ file_len = 0

\* Mutant: the reset comes before the existence check.
ParseLogFileResetsFirst(path) ==
  /\ pc = "idle"
  /\ IF ~PathExists(path)
     THEN /\ returned' = NotFoundOutcome(path)
          /\ SetSelf(ResetState(Self))
          /\ UNCHANGED <<pc, hist, parses, reused, file_len>>
     ELSE /\ parses < MaxParses
          /\ SetSelf(ResetState(Self))
          /\ pc' = "reading"
          /\ returned' = Outcome("parse_log_file", path, "pending", <<>>)
          /\ hist' = <<>>
          /\ parses' = parses + 1
          /\ reused' = (games # <<>>)
          /\ \E n \in 0..MaxLines : file_len' = n

\* parse_log_file up to the loop: the existence check, then the reset.  The
\* file opened has any number of lines up to MaxLines.
ParseLogFile(path) ==
  /\ pc = "idle"
  /\ IF ~PathExists(path)
     THEN /\ returned' = NotFoundOutcome(path)
          /\ UNCHANGED <<games, current_game_id, game_counter, pc, hist,
                         parses, reused, file_len>>
     ELSE /\ parses < MaxParses
          /\ SetSelf(ResetState(Self))
          /\ pc' = "reading"
          /\ returned' = Outcome("parse_log_file", path, "pending", <<>>)
          /\ hist' = <<>>
          /\ parses' = parses + 1
          /\ reused' = (games # <<>>)
          /\ \E n \in 0..MaxLines : file_len' = n

\* One iteration of the loop: the file yields a line and the body runs.
ReadLine(line) ==
  /\ pc = "reading"
  /\ Len(hist) < file_len
  /\ LET s == ProcessLine(Self, line)
     IN  /\ SetSelf(s)
         /\ hist' = Append(hist, [line |-> line, cur |-> s.current_game_id])
  /\ IF LineRaises(Self, line)
     THEN /\ pc' = "idle"
          /\ returned' = Outcome("parse_log_file", returned.path, "KeyError", <<>>)
     ELSE UNCHANGED <<pc, returned>>
  /\ UNCHANGED <<parses, reused, file_len>>

\* open() or the read of the next line raises (I/O fault, undecodable bytes).
ReadFails ==
  /\ pc = "reading"
  /\ pc' = "idle"
  /\ returned' = Outcome("parse_log_file", returned.path, "Exception", <<>>)
  /\ UNCHANGED <<games, current_game_id, game_counter, hist, parses, reused,
                 file_len>>

\* The loop has consumed the file: return self.games.
ParseReturn ==
  /\ pc = "reading"
  /\ Len(hist) = file_len
  /\ pc' = "idle"
  /\ returned' = Outcome("parse_log_file", returned.path, "value", games)
  /\ UNCHANGED <<games, current_game_id, game_counter, hist, parses, reused,
                 file_len>>

GetFormattedResults ==
  /\ pc = "idle"
  /\ games' = FinalizeGames(games)
  /\ returned' = Outcome("get_formatted_results", "", "value", games')
  /\ UNCHANGED <<current_game_id, game_counter, pc, hist, parses, reused,
                 file_len>>

Next ==
  \/ \E path \in Paths : ParseLogFile(path)
  \/ \E line \in Lines : ReadLine(line)
  \/ ReadFails
  \/ ParseReturn
  \/ GetFormattedResults

Spec == Init /\ [][Next]_vars

TypeOK ==
  /\ pc \in {"idle", "reading"}
  /\ game_counter \in 0..(MaxLines + 1)
  /\ parses \in 0..MaxParses
  /\ file_len \in 0..MaxLines
  /\ Len(hist) <= file_len

----------------------------------------------------------------------------
(* Reading the history of the current parse *)

\* The classification the loop gives a line.
IsInitLine(line) == ~line.empty /\ line.init

IsKillLine(line) == ~line.empty /\ ~line.init /\ line.kill # None

InitCount == Cardinality({i \in DOMAIN hist : IsInitLine(hist[i].line)})

\* The kill events processed while the game with this id was current.
KillsOf(id) == {i \in DOMAIN hist : IsKillLine(hist[i].line) /\ hist[i].cur = id}

LastLine == hist[Len(hist)].line

\* This step is an iteration of the loop (the history grows by its line).
LineStep == pc = "reading" /\ Len(hist') = Len(hist) + 1

NewLine == hist'[Len(hist')].line

\* This step processes a kill event with these names.
KillStep(killer, victim) ==
  /\ LineStep
  /\ IsKillLine(NewLine)
  /\ NewLine.kill = <<killer, victim>>

\* The current game before a kill event (a fresh one when none is current)
\* and after it.
GameBefore ==
  IF current_game_id = None THEN NewGame ELSE DictGet(games, current_game_id)

GameAfter == DictGet(games', current_game_id')

HasScore(game, name) == name \in DOMAIN game.kills.items

Score(game, name) == IF HasScore(game, name) THEN game.kills.items[name] ELSE 0

----------------------------------------------------------------------------
(* C1 *)

\* "match_k", the identifier the specification text gives the k-th match.
MatchId(k) == <<"m", "a", "t", "c", "h", "_">> \o Str(k)

----------------------------------------------------------------------------
(* C2 *)

\* C2: a kill event with killer "<world>" and a victim B other than "<world>"
\* raises the current game's total_kills by exactly 1, lowers B's score by
\* exactly 1 (an absent entry counts as 0, so the first penalty gives -1),
\* leaves B in players, and creates or changes no score entry for "<world>"
\* or for any name other than B.
C2_WorldKill ==
  [][\A victim \in PlayerNames :
       KillStep(World, victim) =>
         /\ GameAfter.total_kills = GameBefore.total_kills + 1
         /\ HasScore(GameAfter, victim)
         /\ Score(GameAfter, victim) = Score(GameBefore, victim) - 1
         /\ ~HasScore(GameBefore, victim) => GameAfter.kills.items[victim] = -1
         /\ victim \in ToSet(GameAfter.players)
         /\ ~HasScore(GameAfter, World)
         /\ \A other \in Names \ {victim} :
              /\ HasScore(GameAfter, other) = HasScore(GameBefore, other)
              /\ Score(GameAfter, other) = Score(GameBefore, other)]_vars

\* The last line processed was "<world> killed B", B's first penalty.
C2_Witness ==
  /\ hist # <<>>
  /\ IsKillLine(LastLine)
  /\ LastLine.kill = <<World, <<"B">>>>
  /\ DictGet(games, current_game_id).kills.items = (<<"B">> :> -1)
  /\ DictGet(games, current_game_id).total_kills = 1

----------------------------------------------------------------------------
(* C3 *)

\* The kill event at this position of the history gives this name a score
\* entry: the name is its killer, or its victim and the killer is "<world>".
ScoresFor(i, name) ==
  LET match == hist[i].line.kill
  IN  /\ IsKillLine(hist[i].line)
      /\ name # World
      /\ \/ match[1] = name
         \/ match[1] = World /\ match[2] = name

\* The effect C3 gives a kill by a player; the victim's score entry is left
\* alone for the victims that satisfy Untouched.
PlayerKillEffect(killer, victim, Untouched(_, _)) ==
  KillStep(killer, victim) =>
    /\ GameAfter.total_kills = GameBefore.total_kills + 1
    /\ HasScore(GameAfter, killer)
    /\ Score(GameAfter, killer) = Score(GameBefore, killer) + 1
    /\ killer \in ToSet(GameAfter.players)
    /\ victim # World => victim \in ToSet(GameAfter.players)
    /\ Untouched(killer, victim) =>
         /\ HasScore(GameAfter, victim) = HasScore(GameBefore, victim)
         /\ Score(GameAfter, victim) = Score(GameBefore, victim)
         /\ HasScore(GameAfter, victim) =>
              \E i \in DOMAIN hist :
                hist[i].cur = current_game_id' /\ ScoresFor(i, victim)

AnyVictim(killer, victim) == TRUE

OtherVictim(killer, victim) == victim # killer

\* C3 as stated: a kill event with killer A other than "<world>" and victim B
\* raises total_kills by 1 and A's score by 1, leaves A and B in players, and
\* creates or changes no score entry for B, which has one only from another
\* event of the game.
C3_VictimNeverScored ==
  [][\A killer \in PlayerNames, victim \in Names :
       PlayerKillEffect(killer, victim, AnyVictim)]_vars

\* C3 amended: the same, the victim's score entry being left alone when B
\* differs from A.
C3_PlayerKill ==
  [][\A killer \in PlayerNames, victim \in Names :
       PlayerKillEffect(killer, victim, OtherVictim)]_vars

\* The last line processed was "Ab killed B": Ab scored, B has no entry.
C3_Witness ==
  /\ hist # <<>>
  /\ IsKillLine(LastLine)
  /\ LastLine.kill = <<<<"A", "b">>, <<"B">>>>
  /\ DictGet(games, current_game_id).kills.items = (<<"A", "b">> :> 1)
  /\ DictGet(games, current_game_id).players = <<<<"A", "b">>, <<"B">>>>

----------------------------------------------------------------------------
(* C4 *)

\* C4: the total_kills of every game is the number of kill-event lines
\* processed while that game was the current one, world kills included.
C4_TotalKills ==
  \A k \in DOMAIN games :
    games[k].val.total_kills = Cardinality(KillsOf(games[k].key))

\* A game that is no longer current counted a world kill and a player kill.
C4_Witness ==
  /\ Len(games) = 2
  /\ games[1].val.total_kills = 2
  /\ \E i, j \in KillsOf(games[1].key) :
       hist[i].line.kill[1] = World /\ hist[j].line.kill[1] # World

----------------------------------------------------------------------------
(* C5 *)

\* C5: "<world>" is in the players of no game.
C5_WorldNotPlayer ==
  \A k \in DOMAIN games : World \notin ToSet(games[k].val.players)

\* "<world>" has been a killer, a victim, and both at once.
C5_Witness ==
  /\ \E i \in DOMAIN hist :
       IsKillLine(hist[i].line) /\ hist[i].line.kill = <<World, World>>
  /\ \E i \in DOMAIN hist :
       /\ IsKillLine(hist[i].line)
       /\ hist[i].line.kill[1] = World
       /\ hist[i].line.kill[2] # World
  /\ \E i \in DOMAIN hist :
       /\ IsKillLine(hist[i].line)
       /\ hist[i].line.kill[1] # World
       /\ hist[i].line.kill[2] = World

----------------------------------------------------------------------------
(* C6 *)

\* The names other than "<world>" in the kill events of the game with this id.
SeenIn(id) ==
  {name \in PlayerNames :
     \E i \in KillsOf(id) :
       hist[i].line.kill[1] = name \/ hist[i].line.kill[2] = name}

\* C6: the players of every game are exactly the names other than "<world>"
\* that were killer or victim in its kill events, in strictly ascending order.
C6_PlayersSortedSet ==
  \A k \in DOMAIN games :
    LET players == games[k].val.players
    IN  /\ ToSet(players) = SeenIn(games[k].key)
        /\ \A i, j \in DOMAIN players : i < j => StrLess(players[i], players[j])

\* B was seen before Ab and the list holds Ab first.
C6_Witness ==
  /\ Len(hist) >= 2
  /\ IsKillLine(hist[1].line)
  /\ hist[1].line.kill = <<World, <<"B">>>>
  /\ games # <<>>
  /\ games[1].val.players = <<<<"A", "b">>, <<"B">>>>

----------------------------------------------------------------------------
(* C7 *)

KillCount == Cardinality({i \in DOMAIN hist : IsKillLine(hist[i].line)})

\* parse_log_file has returned its mapping for the log in the history.
ParseReturned == returned.op = "parse_log_file" /\ returned.outcome = "value"

EmptyGame(game) ==
  /\ game.total_kills = 0
  /\ game.players = <<>>
  /\ DOMAIN game.kills.items = {}

\* C7: the result for a log with N match-start markers and no kill event has
\* exactly N games, each with total_kills = 0, players = [] and kills = {};
\* every marker creates a game, also when the current one has no kills.
C7_MarkersOnly ==
  (ParseReturned /\ KillCount = 0) =>
    /\ Len(returned.value) = InitCount
    /\ \A k \in DOMAIN returned.value : EmptyGame(returned.value[k].val)

\* Two consecutive markers and an unrecognised line gave two empty games.
C7_Witness ==
  /\ ParseReturned
  /\ KillCount = 0
  /\ Len(hist) = 3
  /\ IsInitLine(hist[1].line)
  /\ IsInitLine(hist[2].line)
  /\ hist[3].line = [empty |-> FALSE, init |-> FALSE, kill |-> None]
  /\ Len(returned.value) = 2

\* The result for the empty log is the empty mapping.
C7_WitnessEmpty == ParseReturned /\ hist = <<>> /\ returned.value = <<>>

----------------------------------------------------------------------------
(* C8 *)

\* A kill event comes before the first match-start marker.
KillBeforeFirstMarker ==
  \E i \in DOMAIN hist :
    /\ IsKillLine(hist[i].line)
    /\ \A j \in 1..(i - 1) : ~IsInitLine(hist[j].line)

\* The number of games is the number of markers, plus one exactly when a kill
\* event precedes the first marker.
GameCountIsMarkers ==
  Len(games) = InitCount + (IF KillBeforeFirstMarker THEN 1 ELSE 0)

\* A kill event with no current game opens exactly one game, which has the
\* given identifier and counts the kill; with a current game it opens none.
KillOpensOnly(first_id) ==
  \A killer, victim \in Names :
    KillStep(killer, victim) =>
      IF current_game_id = None
      THEN /\ Len(games') = Len(games) + 1
           /\ Len(games') = 1
           /\ current_game_id' = first_id
           /\ games'[1].key = first_id
           /\ games'[1].val.total_kills = 1
      ELSE /\ Len(games') = Len(games)
           /\ current_game_id' = current_game_id

----------------------------------------------------------------------------
(* C9 *)

\* The parser a freshly constructed instance becomes on the first n lines of
\* the history.
RECURSIVE FreshParse(_)
FreshParse(n) ==
  IF n = 0 THEN NewParser ELSE ProcessLine(FreshParse(n - 1), hist[n].line)

\* C9: what parse_log_file returns on an instance that has parsed before is
\* what a fresh instance returns for the same log, and the instance's counter,
\* current id and map are those of the fresh instance.
C9_ReparseIsFresh ==
  ParseReturned =>
    /\ returned.value = FreshParse(Len(hist)).games
    /\ Self = FreshParse(Len(hist))

\* An instance that held games from an earlier run returned a new result.
C9_Witness ==
  /\ ParseReturned
  /\ reused
  /\ parses = 2
  /\ Len(hist) = 2
  /\ Len(returned.value) = 1
  /\ returned.value[1].val.total_kills = 1

----------------------------------------------------------------------------
(* C10 *)

\* C10: parse_log_file on a path that does not exist raises FileNotFoundError
\* before any line is processed and hands back no result.
C10_MissingFile ==
  [][(pc = "idle" /\ returned' # returned /\ returned'.op = "parse_log_file"
        /\ returned'.path \notin ExistingPaths) =>
       /\ returned'.outcome = "FileNotFoundError"
       /\ returned'.value = <<>>
       /\ pc' = "idle"
       /\ hist' = hist]_vars

\* A call with the missing path has failed.
C10_Witness ==
  /\ returned.op = "parse_log_file"
  /\ returned.path = "missing.txt"
  /\ returned.outcome = "FileNotFoundError"
  /\ pc = "idle"

----------------------------------------------------------------------------
(* C11 *)

ParseErrors == {"FileNotFoundError", "Exception", "KeyError"}

\* What the parse_log_file call itself hands back: the map of the parser once
\* every line of the file has been processed, or an error without a value, and
\* nothing while lines are still being read.
ParseOutcomeCompleteOrError ==
  returned.op = "parse_log_file" =>
    /\ returned.outcome \in {"pending", "value"} \cup ParseErrors
    /\ returned.outcome = "pending" <=> pc = "reading"
    /\ returned.outcome = "value" =>
         /\ Len(hist) = file_len
         /\ returned.value = games
    /\ returned.outcome # "value" => returned.value = <<>>

\* The parse has just failed after it had built games from the lines read.
FailedWithPartialGames ==
  /\ returned.op = "parse_log_file"
  /\ returned.outcome \in {"Exception", "KeyError"}
  /\ games # <<>>

\* C11: a parse ends either by returning the complete map after every line
\* has been processed, or by raising an error and returning nothing; a parse
\* that fails after some lines have been processed yields no usable result,
\* so the caller is never handed the partial map it had built.
C11_CompleteOrNothing ==
  /\ []ParseOutcomeCompleteOrError
  /\ [][FailedWithPartialGames =>
          ~(returned'.outcome = "value" /\ returned'.value # <<>>)]_vars

----------------------------------------------------------------------------
(* C12 *)

\* The line matches neither the marker nor the kill pattern.
IsUnrecognised(line) == ~line.empty /\ ~line.init /\ line.kill = None

\* C12: a line that is empty after trimming, or that matches neither the
\* match-start marker nor the kill pattern, leaves the map, the current id
\* and the counter unchanged, raises no error, and the loop goes on.
C12_IgnoredLine ==
  [][(LineStep /\ (NewLine.empty \/ IsUnrecognised(NewLine))) =>
       /\ games' = games
       /\ current_game_id' = current_game_id
       /\ game_counter' = game_counter
       /\ returned' = returned
       /\ pc' = "reading"]_vars

\* A blank and an unrecognised line were read after a kill; the loop is still
\* running and the game is as the kill left it.
C12_Witness ==
  /\ pc = "reading"
  /\ Len(hist) = 3
  /\ IsKillLine(hist[1].line)
  /\ hist[2].line.empty
  /\ IsUnrecognised(hist[3].line)
  /\ Len(games) = 1
  /\ games[1].val.total_kills = 1
  /\ current_game_id = games[1].key

----------------------------------------------------------------------------
(* C13 *)

\* C13: the current game is always the one created last; a kill event leaves
\* every earlier game as it was, a match-start marker leaves every existing
\* game as it was, and no line removes a game from the map.
C13_OnlyCurrentChanges ==
  /\ [](current_game_id # None =>
          games # <<>> /\ current_game_id = games[Len(games)].key)
  /\ [][LineStep =>
          /\ \A k \in DOMAIN games :
               k \in DOMAIN games' /\ games'[k].key = games[k].key
          /\ IsKillLine(NewLine) =>
               \A k \in DOMAIN games : k # Len(games') => games'[k] = games[k]
          /\ IsInitLine(NewLine) =>
               \A k \in DOMAIN games : games'[k] = games[k]]_vars

\* A kill went to the second game and the first kept its own kill.
C13_Witness ==
  /\ Len(hist) = 3
  /\ IsKillLine(hist[1].line)
  /\ IsInitLine(hist[2].line)
  /\ IsKillLine(hist[3].line)
  /\ Len(games) = 2
  /\ games[1].val.players = <<<<"B">>>>
  /\ games[1].val.kills.items = (<<"B">> :> -1)
  /\ games[2].val.players = <<<<"A", "b">>>>
  /\ games[2].val.kills.items = (<<"A", "b">> :> 1)

----------------------------------------------------------------------------
(* C14 *)

\* The line contains "InitGame:" and has the kill-event shape.
IsInitAndKillShaped(line) == ~line.empty /\ line.init /\ line.kill # None

\* C14: a line that contains "InitGame:" and also has the kill-event shape is
\* processed as a match start only: one new empty game is created and becomes
\* current, and no existing game's total_kills, players or scores change.
C14_MarkerFirst ==
  [][(LineStep /\ IsInitAndKillShaped(NewLine)) =>
       /\ Len(games') = Len(games) + 1
       /\ \A k \in DOMAIN games : games'[k] = games[k]
       /\ EmptyGame(games'[Len(games')].val)
       /\ current_game_id' = games'[Len(games')].key
       /\ current_game_id' # current_game_id]_vars

\* The last line read had both shapes: it opened an empty second game and the
\* first game kept its kill.
C14_Witness ==
  /\ Len(hist) = 2
  /\ IsKillLine(hist[1].line)
  /\ IsInitAndKillShaped(hist[2].line)
  /\ Len(games) = 2
  /\ games[1].val.total_kills = 1
  /\ EmptyGame(games[2].val)

----------------------------------------------------------------------------
(* C15 *)

\* C15: in every game, every name with a score entry differs from "<world>"
\* and is one of the game's players.
C15_ScoredArePlayers ==
  \A k \in DOMAIN games :
    \A name \in DOMAIN games[k].val.kills.items :
      name # World /\ name \in ToSet(games[k].val.players)

\* A game holds a score for a killer and one for a world-kill victim, after
\* "<world>" has also been killed by "<world>".
C15_Witness ==
  /\ Len(games) = 1
  /\ DOMAIN games[1].val.kills.items = PlayerNames
  /\ \E i \in DOMAIN hist :
       IsKillLine(hist[i].line) /\ hist[i].line.kill = <<World, World>>
  /\ \E i \in DOMAIN hist :
       IsKillLine(hist[i].line) /\ hist[i].line.kill[1] = World
         /\ hist[i].line.kill[2] # World

----------------------------------------------------------------------------
(* C16 *)

\* A reordering of the history that moves kill events only, and each only to
\* the place of a kill event of the same game.
KillReorderings ==
  {p \in Permutations(DOMAIN hist) :
     \A i \in DOMAIN hist :
       IF IsKillLine(hist[i].line)
       THEN IsKillLine(hist[p[i]].line) /\ hist[p[i]].cur = hist[i].cur
       ELSE p[i] = i}

\* The parser a fresh instance becomes on the first n lines of the history
\* read in the order p.
RECURSIVE FreshParseReordered(_, _)
FreshParseReordered(p, n) ==
  IF n = 0 THEN NewParser
  ELSE ProcessLine(FreshParseReordered(p, n - 1), hist[p[n]].line)

\* C16: the result of a parse is the result for the same log with the kill
\* events of any game reordered among themselves: the same total_kills, the
\* same players and the same scores in every game.
C16_KillOrderIrrelevant ==
  ParseReturned =>
    \A p \in KillReorderings :
      FreshParseReordered(p, Len(hist)).games = returned.value

\* A world kill of B was followed by a kill by B in the same game: the two
\* orders pass through different scores of B and end at the same one.
C16_Witness ==
  /\ ParseReturned
  /\ Len(hist) = 3
  /\ hist[1].line = [empty |-> FALSE, init |-> FALSE,
                     kill |-> <<World, <<"B">>>>]
  /\ hist[2].line = [empty |-> FALSE, init |-> FALSE,
                     kill |-> <<<<"B">>, <<"A", "b">>>>]
  /\ IsInitLine(hist[3].line)
  /\ Cardinality(KillReorderings) = 2
  /\ returned.value[1].val.kills.items = (<<"B">> :> 0)

----------------------------------------------------------------------------
(* C17 *)

\* C17: a kill event whose killer is also its victim and is not "<world>"
\* raises that name's score by exactly 1 and total_kills by 1, and the name is
\* in players exactly once.
C17_SelfKill ==
  [][\A name \in PlayerNames :
       KillStep(name, name) =>
         /\ HasScore(GameAfter, name)
         /\ Score(GameAfter, name) = Score(GameBefore, name) + 1
         /\ GameAfter.total_kills = GameBefore.total_kills + 1
         /\ Cardinality({i \in DOMAIN GameAfter.players :
                           GameAfter.players[i] = name}) = 1]_vars

\* The last line read was "B killed B", the second self-kill of B.
C17_Witness ==
  /\ Len(hist) = 2
  /\ hist[1].line.kill = <<<<"B">>, <<"B">>>>
  /\ IsKillLine(hist[1].line)
  /\ hist[2].line = hist[1].line
  /\ games[1].val.kills.items = (<<"B">> :> 2)
  /\ games[1].val.players = <<<<"B">>>>
  /\ games[1].val.total_kills = 2

----------------------------------------------------------------------------
(* C18 *)

\* This step is a parse_log_file call that fails on a missing path.
NotFoundStep ==
  /\ pc = "idle"
  /\ returned' # returned
  /\ returned'.op = "parse_log_file"
  /\ returned'.outcome = "FileNotFoundError"

\* This step is a get_formatted_results call that follows such a failure.
ResultsAfterNotFound ==
  /\ returned.op = "parse_log_file"
  /\ returned.outcome = "FileNotFoundError"
  /\ returned'.op = "get_formatted_results"

\* C18: a parse_log_file call that fails because the path does not exist
\* leaves the map, the current id and the counter as they were, and
\* get_formatted_results called after it returns the games of the parse
\* before it.
C18_NotFoundKeepsState ==
  /\ [][NotFoundStep =>
          /\ games' = games
          /\ current_game_id' = current_game_id
          /\ game_counter' = game_counter]_vars
  /\ [][ResultsAfterNotFound =>
          /\ returned'.outcome = "value"
          /\ returned'.value = FinalizeGames(FreshParse(Len(hist)).games)]_vars

\* After a parse that returned two games, a call on the missing path failed
\* and the parser still holds the two games.
C18_Witness ==
  /\ returned.op = "parse_log_file"
  /\ returned.outcome = "FileNotFoundError"
  /\ Len(hist) = file_len
  /\ Len(games) = 2
  /\ game_counter = 2
  /\ current_game_id = games[2].key
  /\ games[1].val.total_kills = 1

----------------------------------------------------------------------------
(* C19 *)

RECURSIVE SumTotalKills(_)
SumTotalKills(g) ==
  IF g = <<>> THEN 0
  ELSE g[Len(g)].val.total_kills + SumTotalKills(SubSeq(g, 1, Len(g) - 1))

\* C19: at the end of a parse the total_kills of all games sum to the number
\* of kill-event lines of the log, those before the first marker included.
C19_EveryKillCountedOnce ==
  ParseReturned => SumTotalKills(returned.value) = KillCount

\* A kill before the first marker, the marker, and a kill after it: the two
\* games count one kill each.
C19_Witness ==
  /\ ParseReturned
  /\ Len(hist) = 3
  /\ KillCount = 2
  /\ KillBeforeFirstMarker
  /\ InitCount = 1
  /\ IsKillLine(hist[3].line)
  /\ SumTotalKills(returned.value) = 2

====
